---------------------------- MODULE Spec2Model ----------------------------
(***************************************************************************)
(* CwaWeather-backend (src/server.js): an Express proxy in front of the    *)
(* CWA open-data API.  The model follows GET /api/weather/:cityId through  *)
(* getWeatherByCity: city lookup, credential check, the one awaited        *)
(* axios.get, the reshaping loop and the catch block.                      *)
(*                                                                         *)
(* Text is a sequence of one-character strings, so that toLowerCase, the   *)
(* "%" suffix and template-literal interpolation are real operations.      *)
(* TLA+ strings are ASCII: a CJK character is written as its code point    *)
(* ("U+81FA"), and a fixed CJK literal of the source as one token.         *)
(***************************************************************************)
EXTENDS Integers, Sequences, FiniteSets, TLC

VARIABLES
    CITY_NAME_MAPPING,  \* the lookup table object (server.js:14)
    CWA_API_KEY,        \* process.env.CWA_API_KEY (server.js:11)
    pc,                 \* per request: "idle", "awaiting", "done", "rejected"
    params,             \* per request: req.params.cityId as received
    calls,              \* per request: the axios.get calls issued, in order
    upstream,           \* per request: how the awaited call settled
    locationName,       \* per request: the handler's const locationName
    responses,          \* per request: the responses sent, in order
    expressMajor,       \* major version of the express the build resolves
    crashed             \* the process died of an unhandled rejection

vars == <<CITY_NAME_MAPPING, CWA_API_KEY, pc, params, calls, upstream,
          locationName, responses, expressMajor, crashed>>

---------------------------------------------------------------------------
(* Bounds *)

NumReqs == 2        \* requests in flight in Spec
MaxTimes == 2       \* longest time array of a six-element payload
MaxElems == 3       \* most weather elements of a mixed payload
MaxVarLen == 1      \* longest time array of a mixed payload's element

Reqs == 1..NumReqs

---------------------------------------------------------------------------
(* Text *)

UpperChars == <<"A","B","C","D","E","F","G","H","I","J","K","L","M",
                "N","O","P","Q","R","S","T","U","V","W","X","Y","Z">>

LowerChars == <<"a","b","c","d","e","f","g","h","i","j","k","l","m",
                "n","o","p","q","r","s","t","u","v","w","x","y","z">>

\* String.prototype.toLowerCase, on the ASCII letters
toLowerCase(s) ==
    [i \in 1..Len(s) |->
        IF \E k \in 1..26 : UpperChars[k] = s[i]
        THEN LowerChars[CHOOSE k \in 1..26 : UpperChars[k] = s[i]]
        ELSE s[i]]

\* the inverse mapping, used only to build mixed-case inputs
toUpperCase(s) ==
    [i \in 1..Len(s) |->
        IF \E k \in 1..26 : LowerChars[k] = s[i]
        THEN UpperChars[CHOOSE k \in 1..26 : LowerChars[k] = s[i]]
        ELSE s[i]]

RECURSIVE join(_, _)
\* Array.prototype.join
join(items, sep) ==
    IF items = <<>> THEN <<>>
    ELSE IF Len(items) = 1 THEN items[1]
    ELSE items[1] \o sep \o join(Tail(items), sep)

\* JavaScript values that may be undefined: [defined, text]
Undefined == [defined |-> FALSE, text |-> <<>>]
Str(t) == [defined |-> TRUE, text |-> t]
\* ToBoolean of such a value: undefined and "" are falsy
Truthy(v) == v.defined /\ v.text # <<>>

---------------------------------------------------------------------------
(* The lookup table *)

CityNameMappingLiteral ==
    << [key |-> <<"t","a","i","p","e","i">>,
        value |-> <<"U+81FA","U+5317","U+5E02">>],
       [key |-> <<"n","e","w","t","a","i","p","e","i">>,
        value |-> <<"U+65B0","U+5317","U+5E02">>],
       [key |-> <<"t","a","o","y","u","a","n">>,
        value |-> <<"U+6843","U+5712","U+5E02">>],
       [key |-> <<"t","a","i","c","h","u","n","g">>,
        value |-> <<"U+81FA","U+4E2D","U+5E02">>],
       [key |-> <<"t","a","i","n","a","n">>,
        value |-> <<"U+81FA","U+5357","U+5E02">>],
       [key |-> <<"k","a","o","h","s","i","u","n","g">>,
        value |-> <<"U+9AD8","U+96C4","U+5E02">>] >>

\* An object literal inherits from Object.prototype; these are the inherited
\* properties, with the text their value interpolates to.
ObjectPrototype ==
    << [key |-> <<"c","o","n","s","t","r","u","c","t","o","r">>,
        value |-> <<"function Object() { [native code] }">>],
       [key |-> <<"_","_","p","r","o","t","o","_","_">>,
        value |-> <<"[object Object]">>],
       [key |-> <<"t","o","S","t","r","i","n","g">>,
        value |-> <<"function toString() { [native code] }">>],
       [key |-> <<"v","a","l","u","e","O","f">>,
        value |-> <<"function valueOf() { [native code] }">>],
       [key |-> <<"h","a","s","O","w","n","P","r","o","p","e","r","t","y">>,
        value |-> <<"function hasOwnProperty() { [native code] }">>] >>

\* Object.keys(obj): own keys in insertion order
ObjectKeys(obj) == [i \in 1..Len(obj) |-> obj[i].key]

HasOwn(obj, k) == \E i \in 1..Len(obj) : obj[i].key = k

\* obj[k]: own property, else the prototype's, else undefined
GetProperty(obj, k) ==
    IF HasOwn(obj, k)
    THEN Str(obj[CHOOSE i \in 1..Len(obj) : obj[i].key = k].value)
    ELSE IF HasOwn(ObjectPrototype, k)
    THEN Str(ObjectPrototype[CHOOSE i \in 1..Len(ObjectPrototype) :
                                 ObjectPrototype[i].key = k].value)
    ELSE Undefined

---------------------------------------------------------------------------
(* Upstream payloads and responses *)

KnownTags == {"Wx", "PoP", "MinT", "MaxT", "CI", "WS"}

\* error.response.data: JSON null, a string, or an object that may carry message
NoBody == [t |-> "null", text |-> <<>>, hasMessage |-> FALSE, message |-> <<>>]

\* response.data of a 2xx reply
NoPayload ==
    [hasRecords |-> FALSE, hasLocation |-> FALSE,
     datasetDescription |-> <<>>, location |-> <<>>]

\* how the awaited axios.get settled
NoOutcome ==
    [kind |-> "none", hasResponse |-> FALSE, status |-> 0,
     body |-> NoBody, data |-> NoPayload]

Fulfilled(d) ==
    [kind |-> "fulfilled", hasResponse |-> TRUE, status |-> 200,
     body |-> NoBody, data |-> d]

RejectedWithResponse(s, b) ==
    [kind |-> "rejected", hasResponse |-> TRUE, status |-> s,
     body |-> b, data |-> NoPayload]

RejectedNoResponse ==
    [kind |-> "rejected", hasResponse |-> FALSE, status |-> 0,
     body |-> NoBody, data |-> NoPayload]

NoWeatherData == [city |-> <<>>, updateTime |-> <<>>, forecasts |-> <<>>]

\* res.status(status).json({error, message, details})
ErrorEnvelope(status, error, message, hasDetails, details) ==
    [status |-> status, success |-> FALSE, error |-> error, message |-> message,
     hasDetails |-> hasDetails, details |-> details, data |-> NoWeatherData]

\* res.json({success: true, data})
SuccessEnvelope(data) ==
    [status |-> 200, success |-> TRUE, error |-> "", message |-> <<>>,
     hasDetails |-> FALSE, details |-> NoBody, data |-> data]

---------------------------------------------------------------------------
(* getWeatherByCity, before the await *)

ERR_INVALID_CITY == "U+7121U+6548U+7684U+57CEU+5E02 ID"
ERR_MISCONFIGURED == "U+4F3AU+670DU+5668U+8A2DU+5B9AU+932FU+8AA4"
ERR_NO_DATA == "U+67E5U+7121U+8CC7U+6599"
ERR_CWA_API == "CWA API U+932FU+8AA4"
ERR_SERVER == "U+4F3AU+670DU+5668U+932FU+8AA4"

MSG_UNSUPPORTED_PREFIX == <<"U+4E0DU+652FU+63F4U+67E5U+8A62U+6B64U+57CEU+5E02: ">>
MSG_PLEASE_USE == <<"U+FF0CU+8ACBU+4F7FU+7528 ">>
MSG_SET_KEY == <<"U+8ACBU+5728 .env U+6A94U+6848U+4E2DU+8A2DU+5B9A CWA_API_KEY">>
MSG_CANNOT_GET_PREFIX == <<"U+7121U+6CD5U+53D6U+5F97 ">>
MSG_CANNOT_GET_SUFFIX == <<" U+5929U+6C23U+8CC7U+6599">>
MSG_CANNOT_GET == <<"U+7121U+6CD5U+53D6U+5F97U+5929U+6C23U+8CC7U+6599">>
MSG_RETRY_LATER ==
    <<"U+7121U+6CD5U+53D6U+5F97U+5929U+6C23U+8CC7U+6599U+FF0CU+8ACBU+7A0DU+5F8CU+518DU+8A66">>
MSG_TYPE_ERROR_NULL == <<"Cannot read properties of null (reading 'message')">>

\* a faulty variant: the lookup without the toLowerCase
LookupLocationNameCaseSensitive(table, raw) == GetProperty(table, raw)

\* const cityId = req.params.cityId.toLowerCase();
\* const locationName = CITY_NAME_MAPPING[cityId];
LookupLocationName(table, raw) == GetProperty(table, toLowerCase(raw))

InvalidCityResponse(table, raw) ==
    ErrorEnvelope(400, ERR_INVALID_CITY,
        MSG_UNSUPPORTED_PREFIX \o raw \o MSG_PLEASE_USE
            \o join(ObjectKeys(table), <<",", " ">>),
        FALSE, NoBody)

MisconfiguredResponse == ErrorEnvelope(500, ERR_MISCONFIGURED, MSG_SET_KEY, FALSE, NoBody)

\* the params object of the axios.get call
AxiosCall(key, name) == [Authorization |-> key.text, locationName |-> name.text]

\* a faulty variant: the handler without its credential check
BeforeAwaitNoKeyCheck(table, key, raw) ==
    LET name == GetProperty(table, toLowerCase(raw)) IN
    IF ~Truthy(name)
    THEN [respond |-> TRUE, response |-> InvalidCityResponse(table, raw),
          requests |-> <<>>]
    ELSE [respond |-> FALSE, response |-> MisconfiguredResponse,
          requests |-> <<AxiosCall(key, name)>>]

\* The synchronous prefix of the handler: the response it sends, if any, and
\* the upstream calls it issues.
BeforeAwait(table, key, raw) ==
    LET name == LookupLocationName(table, raw) IN
    IF ~Truthy(name)
    THEN [respond |-> TRUE, response |-> InvalidCityResponse(table, raw),
          requests |-> <<>>]
    ELSE IF ~Truthy(key)
    THEN [respond |-> TRUE, response |-> MisconfiguredResponse, requests |-> <<>>]
    ELSE [respond |-> FALSE, response |-> MisconfiguredResponse,
          requests |-> <<AxiosCall(key, name)>>]

---------------------------------------------------------------------------
(* getWeatherByCity, after the await: reshaping *)

EmptyForecast(first) ==
    [startTime |-> first.startTime, endTime |-> first.endTime,
     weather |-> <<>>, rain |-> <<>>, minTemp |-> <<>>, maxTemp |-> <<>>,
     comfort |-> <<>>, windSpeed |-> <<>>]

\* a faulty variant: a default case that stores the value as the weather text
ApplyElementDefaultCase(forecast, element, i) ==
    LET name == element.time[i].parameterName IN
    CASE element.elementName = "PoP"  -> [forecast EXCEPT !.rain = name \o <<"%">>]
      [] element.elementName = "MinT" -> [forecast EXCEPT !.minTemp = name]
      [] element.elementName = "MaxT" -> [forecast EXCEPT !.maxTemp = name]
      [] element.elementName = "CI"   -> [forecast EXCEPT !.comfort = name]
      [] element.elementName = "WS"   -> [forecast EXCEPT !.windSpeed = name]
      [] OTHER -> [forecast EXCEPT !.weather = name]

\* the switch on element.elementName
ApplyElement(forecast, element, i) ==
    LET name == element.time[i].parameterName IN
    CASE element.elementName = "Wx"   -> [forecast EXCEPT !.weather = name]
      [] element.elementName = "PoP"  -> [forecast EXCEPT !.rain = name \o <<"%">>]
      [] element.elementName = "MinT" -> [forecast EXCEPT !.minTemp = name]
      [] element.elementName = "MaxT" -> [forecast EXCEPT !.maxTemp = name]
      [] element.elementName = "CI"   -> [forecast EXCEPT !.comfort = name]
      [] element.elementName = "WS"   -> [forecast EXCEPT !.windSpeed = name]
      [] OTHER -> forecast

RECURSIVE ForEachElement(_, _, _, _)
\* weatherElements.forEach(...) from element k on
ForEachElement(forecast, elements, k, i) ==
    IF k > Len(elements) THEN forecast
    ELSE ForEachElement(ApplyElement(forecast, elements[k], i), elements, k + 1, i)

\* element.time[i].parameter of an element with no time[i] is a TypeError, and so
\* is value.parameterName of an absent parameter in a case of the switch
SlotThrows(elements, i) ==
    \E k \in 1..Len(elements) :
        \/ Len(elements[k].time) < i
        \/ /\ elements[k].elementName \in KnownTags
           /\ ~elements[k].time[i].hasParameter

\* the body of the for loop: the forecast pushed for index i
BuildForecast(elements, i) ==
    ForEachElement(EmptyForecast(elements[1].time[i]), elements, 1, i)

\* a faulty variant: unshift in place of push
BuildForecastsReversed(elements, timeCount) ==
    [i \in 1..timeCount |-> BuildForecast(elements, timeCount + 1 - i)]

\* the for loop: forecasts in push order
BuildForecasts(elements, timeCount) ==
    [i \in 1..timeCount |-> BuildForecast(elements, i)]

\* records.location[0] is undefined (empty array) or null
NoLocationData(data) == data.location = <<>> \/ data.location[1].isNull

\* a TypeError between the await and res.json
TryThrows(data) ==
    \/ ~data.hasRecords
    \/ ~data.hasLocation
    \/ /\ ~NoLocationData(data)
       /\ LET loc == data.location[1] IN
          \/ ~loc.hasWeatherElement
          \/ loc.weatherElement = <<>>
          \/ \E i \in 1..Len(loc.weatherElement[1].time) :
                 SlotThrows(loc.weatherElement, i)

NoDataResponse(name) ==
    ErrorEnvelope(404, ERR_NO_DATA,
        MSG_CANNOT_GET_PREFIX \o name \o MSG_CANNOT_GET_SUFFIX, FALSE, NoBody)

\* lines 70-131 when nothing throws
AfterAwait(name, data) ==
    IF NoLocationData(data) THEN NoDataResponse(name)
    ELSE LET loc == data.location[1]
             weatherElements == loc.weatherElement
             timeCount == Len(weatherElements[1].time)
         IN SuccessEnvelope(
                [city |-> loc.locationName,
                 updateTime |-> data.datasetDescription,
                 forecasts |-> BuildForecasts(weatherElements, timeCount)])

---------------------------------------------------------------------------
(* The catch block *)

ServerErrorResponse == ErrorEnvelope(500, ERR_SERVER, MSG_RETRY_LATER, FALSE, NoBody)

\* error.response.data.message || fallback
UpstreamMessage(body) ==
    IF body.t = "object" /\ body.hasMessage /\ body.message # <<>>
    THEN body.message
    ELSE MSG_CANNOT_GET

\* a faulty variant: a catch block that never looks at error.response
CatchBlockIgnoresResponse(error) == [threw |-> FALSE, response |-> ServerErrorResponse]

\* [threw, response]: reading .message of a null body throws inside the catch
CatchBlock(error) ==
    IF error.hasResponse
    THEN IF error.body.t = "null"
         THEN [threw |-> TRUE, response |-> ServerErrorResponse]
         ELSE [threw |-> FALSE,
               response |-> ErrorEnvelope(error.status, ERR_CWA_API,
                                UpstreamMessage(error.body), TRUE, error.body)]
    ELSE [threw |-> FALSE, response |-> ServerErrorResponse]

\* the try block's continuation once the call is fulfilled
OnFulfilled(name, data) ==
    IF TryThrows(data)
    THEN CatchBlock(RejectedNoResponse)
    ELSE [threw |-> FALSE, response |-> AfterAwait(name, data)]

\* app.use((err, req, res, next) => ...)
ErrorMiddlewareResponse == ErrorEnvelope(500, ERR_SERVER, MSG_TYPE_ERROR_NULL, FALSE, NoBody)

---------------------------------------------------------------------------
(* Inputs *)

\* process.env.CWA_API_KEY: unset, empty, or a key
Credentials == {Undefined, Str(<<>>), Str(<<"C","W","A","-","K","E","Y">>)}

Capitalize(s) == [i \in 1..Len(s) |-> IF i = 1 THEN toUpperCase(s)[i] ELSE s[i]]

TableKeys == {CityNameMappingLiteral[i].key : i \in 1..Len(CityNameMappingLiteral)}

\* path segments that are not table keys in any letter case
OtherCityIds ==
    { <<"u","n","k","n","o","w","n">>,
      <<"t","a","i","p","e">>,
      <<"t","a","i","p","e","i","2">>,
      <<"T","o","k","y","o">>,
      <<"U+81FA","U+5317","U+5E02">>,
      <<"t","o","S","t","r","i","n","g">>,
      <<"c","o","n","s","t","r","u","c","t","o","r">>,
      <<"C","o","n","s","t","r","u","c","t","o","r">>,
      <<"_","_","p","r","o","t","o","_","_">> }

AllCityIds ==
    TableKeys \cup {toUpperCase(k) : k \in TableKeys}
              \cup {Capitalize(k) : k \in TableKeys}
              \cup OtherCityIds

FewCityIds ==
    { <<"t","a","i","p","e","i">>,
      <<"K","A","O","H","S","I","U","N","G">>,
      <<"u","n","k","n","o","w","n">> }

\* time[i] of an element: 12-hour intervals, shifted for a misaligned element
TimeEntry(tag, i, shift, suffix, hasParameter) ==
    [startTime |-> 12 * (i - 1) + shift, endTime |-> 12 * i + shift,
     hasParameter |-> hasParameter,
     parameterName |-> <<tag, ToString(i)>> \o suffix]

Element(tag, n, shift, suffix, hasParameter) ==
    [elementName |-> tag,
     time |-> [i \in 1..n |-> TimeEntry(tag, i, shift, suffix, hasParameter)]]

Location(name, elements) ==
    [isNull |-> FALSE, locationName |-> name,
     hasWeatherElement |-> TRUE, weatherElement |-> elements]

Payload(locations) ==
    [hasRecords |-> TRUE, hasLocation |-> TRUE,
     datasetDescription |-> <<"3","6","h">>, location |-> locations]

TaipeiName == <<"U+81FA","U+5317","U+5E02">>

TagOrders == {o \in [1..6 -> KnownTags] : \A i, j \in 1..6 : o[i] = o[j] => i = j}

Suffixes == {<<>>, <<"%">>}

\* the documented shape: the six elements in some order, n time entries each
SixElementPayloads ==
    { Payload(<<Location(TaipeiName,
                  [k \in 1..6 |-> Element(o[k], n, 0, sfx, TRUE)])>>) :
        o \in TagOrders, n \in 0..MaxTimes, sfx \in Suffixes }

MixedTags == {"Wx", "PoP", "UVI"}

ElementChoices == MixedTags \X (0..MaxVarLen)

ElementLists == UNION {[1..m -> ElementChoices] : m \in 0..MaxElems}

\* known and unknown elements mixed, time arrays of any length; shift moves
\* the unknown elements' intervals off the known ones'
MixedPayloads ==
    { Payload(<<Location(TaipeiName,
                  [k \in 1..Len(l) |->
                      Element(l[k][1], l[k][2],
                              IF l[k][1] \in KnownTags THEN 0 ELSE shift,
                              <<>>, TRUE)])>>) :
        l \in ElementLists, shift \in {0, 1} }

CanonicalElements ==
    <<Element("Wx", 2, 0, <<>>, TRUE), Element("PoP", 2, 0, <<>>, TRUE),
      Element("MinT", 2, 0, <<>>, TRUE), Element("MaxT", 2, 0, <<>>, TRUE),
      Element("CI", 2, 0, <<>>, TRUE), Element("WS", 2, 0, <<>>, TRUE)>>

\* payloads off the documented shape
OddPayloads ==
    { NoPayload,
      [NoPayload EXCEPT !.hasRecords = TRUE],
      Payload(<<>>),
      Payload(<<[Location(TaipeiName, <<>>) EXCEPT !.isNull = TRUE]>>),
      Payload(<<[Location(TaipeiName, <<>>) EXCEPT !.hasWeatherElement = FALSE]>>),
      Payload(<<Location(TaipeiName, <<>>)>>),
      Payload(<<Location(TaipeiName,
                  <<Element("Wx", 2, 0, <<>>, TRUE), Element("PoP", 2, 0, <<>>, FALSE)>>)>>),
      Payload(<<Location(TaipeiName,
                  <<Element("Wx", 2, 0, <<>>, TRUE), Element("UVI", 2, 0, <<>>, FALSE)>>)>>),
      Payload(<<Location(TaipeiName, CanonicalElements),
                Location(<<"U+9AD8","U+96C4","U+5E02">>, <<>>)>>) }

StringBody(t) == [t |-> "string", text |-> t, hasMessage |-> FALSE, message |-> <<>>]
ObjectBody(has, m) == [t |-> "object", text |-> <<>>, hasMessage |-> has, message |-> m]

ErrorBodies ==
    { NoBody,
      StringBody(<<>>),
      StringBody(<<"<","h","t","m","l",">">>),
      ObjectBody(FALSE, <<>>),
      ObjectBody(TRUE, <<>>),
      ObjectBody(TRUE, <<"b","u","s","y">>) }

ErrorStatuses == {401, 404, 429, 503}

BasicOutcomes ==
    {Fulfilled(Payload(<<Location(TaipeiName, CanonicalElements)>>))}
    \cup {Fulfilled(d) : d \in OddPayloads}
    \cup {RejectedWithResponse(s, b) : s \in ErrorStatuses, b \in ErrorBodies}
    \cup {RejectedNoResponse}

FewOutcomes ==
    { Fulfilled(Payload(<<Location(TaipeiName, CanonicalElements)>>)),
      Fulfilled(Payload(<<>>)),
      RejectedWithResponse(503, NoBody),
      RejectedWithResponse(503, ObjectBody(TRUE, <<"b","u","s","y">>)),
      RejectedNoResponse }

\* the one identifier the reshaping runs are requested with
ReshapeCityIds == { <<"T","a","i","P","e","i">> }

ReshapeOutcomes ==
    {Fulfilled(d) : d \in SixElementPayloads \cup MixedPayloads \cup OddPayloads}
    \cup {RejectedWithResponse(503, NoBody), RejectedNoResponse}

---------------------------------------------------------------------------
(* The server *)

Init ==
    /\ CITY_NAME_MAPPING = CityNameMappingLiteral
    /\ CWA_API_KEY \in Credentials
    /\ expressMajor \in {4, 5}
    /\ pc = [r \in Reqs |-> "idle"]
    /\ params = [r \in Reqs |-> <<>>]
    /\ locationName = [r \in Reqs |-> Undefined]
    /\ calls = [r \in Reqs |-> <<>>]
    /\ upstream = [r \in Reqs |-> NoOutcome]
    /\ responses = [r \in Reqs |-> <<>>]
    /\ crashed = FALSE

\* GET /api/weather/:cityId arrives with some identifier of ids; the handler
\* runs up to its await
Request(r, ids) ==
    /\ ~crashed
    /\ pc[r] = "idle"
    /\ \E raw \in ids :
         LET out == BeforeAwait(CITY_NAME_MAPPING, CWA_API_KEY, raw) IN
         /\ params' = [params EXCEPT ![r] = raw]
         /\ locationName' = [locationName EXCEPT
                                ![r] = LookupLocationName(CITY_NAME_MAPPING, raw)]
         /\ calls' = [calls EXCEPT ![r] = @ \o out.requests]
         /\ responses' = [responses EXCEPT
                             ![r] = IF out.respond THEN Append(@, out.response) ELSE @]
         /\ pc' = [pc EXCEPT ![r] = IF out.respond THEN "done" ELSE "awaiting"]
    /\ UNCHANGED <<CITY_NAME_MAPPING, CWA_API_KEY, upstream, expressMajor, crashed>>

\* a faulty variant: a catch block that repeats the call once after a failure
ResumeRetry(r, outcome, out) ==
    IF outcome.kind = "rejected" /\ Len(calls[r]) < 2
    THEN /\ upstream' = [upstream EXCEPT ![r] = outcome]
         /\ calls' = [calls EXCEPT ![r] = Append(@, @[1])]
         /\ UNCHANGED <<CITY_NAME_MAPPING, CWA_API_KEY, pc, params, locationName,
                        responses, expressMajor, crashed>>
    ELSE /\ upstream' = [upstream EXCEPT ![r] = outcome]
         /\ responses' = [responses EXCEPT
                             ![r] = IF out.threw THEN @ ELSE Append(@, out.response)]
         /\ pc' = [pc EXCEPT ![r] = IF out.threw THEN "rejected" ELSE "done"]
         /\ UNCHANGED <<CITY_NAME_MAPPING, CWA_API_KEY, params, locationName, calls,
                        expressMajor, crashed>>

\* the handler resumes with what its continuation or catch block produced
Resume(r, outcome, out) ==
    /\ upstream' = [upstream EXCEPT ![r] = outcome]
    /\ responses' = [responses EXCEPT
                        ![r] = IF out.threw THEN @ ELSE Append(@, out.response)]
    /\ pc' = [pc EXCEPT ![r] = IF out.threw THEN "rejected" ELSE "done"]
    /\ UNCHANGED <<CITY_NAME_MAPPING, CWA_API_KEY, params, locationName, calls,
                   expressMajor, crashed>>

\* the upstream answers 2xx, with some payload of outcomes
UpstreamFulfilled(r, outcomes) ==
    /\ ~crashed
    /\ pc[r] = "awaiting"
    /\ \E outcome \in outcomes :
           /\ outcome.kind = "fulfilled"
           /\ Resume(r, outcome, OnFulfilled(locationName[r].text, outcome.data))

\* axios rejects: an error status, or no response at all
UpstreamRejected(r, outcomes) ==
    /\ ~crashed
    /\ pc[r] = "awaiting"
    /\ \E outcome \in outcomes :
           /\ outcome.kind = "rejected"
           /\ Resume(r, outcome, CatchBlock(outcome))

\* express 5 hands the rejected handler promise to the error middleware
ErrorMiddleware(r) ==
    /\ ~crashed
    /\ pc[r] = "rejected"
    /\ expressMajor = 5
    /\ responses' = [responses EXCEPT ![r] = Append(@, ErrorMiddlewareResponse)]
    /\ pc' = [pc EXCEPT ![r] = "done"]
    /\ UNCHANGED <<CITY_NAME_MAPPING, CWA_API_KEY, params, locationName, calls,
                   upstream, expressMajor, crashed>>

\* express 4 leaves the rejection unhandled, which may end the process
UnhandledRejection ==
    /\ ~crashed
    /\ expressMajor = 4
    /\ \E r \in Reqs : pc[r] = "rejected"
    /\ crashed' = TRUE
    /\ UNCHANGED <<CITY_NAME_MAPPING, CWA_API_KEY, pc, params, locationName, calls,
                   upstream, responses, expressMajor>>

\* concurrent requests
Next ==
    \/ \E r \in Reqs : Request(r, FewCityIds)
    \/ \E r \in Reqs : UpstreamFulfilled(r, FewOutcomes)
    \/ \E r \in Reqs : UpstreamRejected(r, FewOutcomes)
    \/ \E r \in Reqs : ErrorMiddleware(r)
    \/ UnhandledRejection

Spec == Init /\ [][Next]_vars

\* one request, every city identifier
NextCity ==
    \/ Request(1, AllCityIds)
    \/ UpstreamFulfilled(1, BasicOutcomes)
    \/ UpstreamRejected(1, BasicOutcomes)
    \/ ErrorMiddleware(1)
    \/ UnhandledRejection

SpecCity == Init /\ [][NextCity]_vars

\* one request, every payload
NextReshape ==
    \/ Request(1, ReshapeCityIds)
    \/ UpstreamFulfilled(1, ReshapeOutcomes)
    \/ UpstreamRejected(1, ReshapeOutcomes)
    \/ ErrorMiddleware(1)
    \/ UnhandledRejection

SpecReshape == Init /\ [][NextReshape]_vars

---------------------------------------------------------------------------
(* Vocabulary of the properties *)

Answered(r) == pc[r] \in {"done", "rejected"}

\* the value the table literal gives a key
TableValue(k) ==
    CityNameMappingLiteral[CHOOSE i \in 1..Len(CityNameMappingLiteral) :
                               CityNameMappingLiteral[i].key = k].value

IsTableKey(raw) == toLowerCase(raw) \in TableKeys

Contains(t, sub) ==
    \E i \in 0..(Len(t) - Len(sub)) : SubSeq(t, i + 1, i + Len(sub)) = sub

\* the positions where sub stands in t as an item of a ", "-separated list
\* that begins after the MSG_PLEASE_USE token
ListedAt(t, sub) ==
    { i \in 1..(Len(t) - Len(sub) + 1) :
        /\ SubSeq(t, i, i + Len(sub) - 1) = sub
        /\ i > 1
        /\ \/ <<t[i - 1]>> = MSG_PLEASE_USE
           \/ i > 2 /\ t[i - 2] = "," /\ t[i - 1] = " "
        /\ \/ i + Len(sub) - 1 = Len(t)
           \/ t[i + Len(sub)] = "," }

\* the documented payload shape: one location at least, the first with a
\* non-empty weatherElement whose time arrays hold the same intervals, every
\* entry carrying its parameter
WellFormed(data) ==
    /\ data.hasRecords
    /\ data.hasLocation
    /\ data.location # <<>>
    /\ ~data.location[1].isNull
    /\ data.location[1].hasWeatherElement
    /\ data.location[1].weatherElement # <<>>
    /\ LET els == data.location[1].weatherElement IN
       \A k \in 1..Len(els) :
           /\ Len(els[k].time) = Len(els[1].time)
           /\ \A i \in 1..Len(els[k].time) :
                  /\ els[k].time[i].hasParameter
                  /\ els[k].time[i].startTime = els[1].time[i].startTime
                  /\ els[k].time[i].endTime = els[1].time[i].endTime

\* the slot field an element tag selects
Field(forecast, tag) ==
    CASE tag = "Wx" -> forecast.weather
      [] tag = "PoP" -> forecast.rain
      [] tag = "MinT" -> forecast.minTemp
      [] tag = "MaxT" -> forecast.maxTemp
      [] tag = "CI" -> forecast.comfort
      [] tag = "WS" -> forecast.windSpeed

IsGenericServerError(e) ==
    /\ e.status = 500
    /\ ~e.success
    /\ e.error = ERR_SERVER
    /\ e.message = MSG_RETRY_LATER
    /\ ~e.hasDetails

---------------------------------------------------------------------------
(* C1 *)

\* C1 as stated: every request whose lowercased cityId is a table key issues
\* exactly one upstream call with the table's value as locationName, and is
\* answered {success: true, data}.
C1_Original ==
    \A r \in Reqs :
        Answered(r) /\ IsTableKey(params[r]) =>
            /\ Len(calls[r]) = 1
            /\ calls[r][1].locationName = TableValue(toLowerCase(params[r]))
            /\ Len(responses[r]) = 1
            /\ responses[r][1].success

\* C1 amended: with the credential set, a request whose lowercased cityId is a
\* table key (in any letter case) has issued exactly one upstream call, whose
\* locationName is the table's value for that key, from the moment it awaits;
\* and it is answered 200 {success: true, data} when that call is fulfilled
\* with a well-formed payload.
C1_Amended ==
    \A r \in Reqs :
        pc[r] # "idle" /\ IsTableKey(params[r]) /\ Truthy(CWA_API_KEY) =>
            /\ Len(calls[r]) = 1
            /\ calls[r][1].locationName = TableValue(toLowerCase(params[r]))
            /\ calls[r][1].Authorization = CWA_API_KEY.text
            /\ (Answered(r) /\ upstream[r].kind = "fulfilled"
                    /\ WellFormed(upstream[r].data) =>
                  /\ pc[r] = "done"
                  /\ Len(responses[r]) = 1
                  /\ responses[r][1].success
                  /\ responses[r][1].status = 200)

\* an upper-case key was looked up, called upstream once and answered
C1_Witness ==
    \E r \in Reqs :
        /\ pc[r] = "done"
        /\ params[r] = <<"K","A","O","H","S","I","U","N","G">>
        /\ Len(calls[r]) = 1
        /\ calls[r][1].locationName = <<"U+9AD8","U+96C4","U+5E02">>
        /\ responses[r][1].success

---------------------------------------------------------------------------
(* C2 *)

\* C2: every request whose lowercased cityId is not a table key is answered
\* 400 InvalidCity, with a message that contains the input as received and
\* lists every valid identifier exactly once.
C2_InvalidCity ==
    \A r \in Reqs :
        pc[r] # "idle" /\ ~IsTableKey(params[r]) =>
            /\ pc[r] = "done"
            /\ calls[r] = <<>>
            /\ Len(responses[r]) = 1
            /\ responses[r][1].status = 400
            /\ responses[r][1].error = ERR_INVALID_CITY
            /\ Contains(responses[r][1].message, params[r])
            /\ \A k \in TableKeys :
                   Cardinality(ListedAt(responses[r][1].message, k)) = 1

---------------------------------------------------------------------------
(* C3 *)

\* C3 as stated: with the credential empty or unset, every request, for every
\* cityId, is answered 500 ServerMisconfigured and issues no upstream call.
C3_Original ==
    ~Truthy(CWA_API_KEY) =>
        \A r \in Reqs :
            /\ calls[r] = <<>>
            /\ pc[r] # "idle" =>
                  /\ pc[r] = "done"
                  /\ Len(responses[r]) = 1
                  /\ responses[r][1].status = 500
                  /\ responses[r][1].error = ERR_MISCONFIGURED

\* C3 amended: with the credential empty or unset no request issues an
\* upstream call; a request whose lowercased cityId is a table key is
\* answered 500 ServerMisconfigured, and every other request is answered
\* either 400 InvalidCity or 500 ServerMisconfigured.
C3_Amended ==
    ~Truthy(CWA_API_KEY) =>
        \A r \in Reqs :
            /\ calls[r] = <<>>
            /\ pc[r] # "idle" =>
                  /\ pc[r] = "done"
                  /\ Len(responses[r]) = 1
                  /\ \/ /\ responses[r][1].status = 500
                        /\ responses[r][1].error = ERR_MISCONFIGURED
                        /\ responses[r][1].message = MSG_SET_KEY
                     \/ /\ responses[r][1].status = 400
                        /\ responses[r][1].error = ERR_INVALID_CITY
                        /\ ~IsTableKey(params[r])

\* an empty credential, a valid city in capitals, answered 500 with no call
C3_Witness ==
    /\ CWA_API_KEY = Str(<<>>)
    /\ \E r \in Reqs :
           /\ pc[r] = "done"
           /\ params[r] = <<"T","A","I","P","E","I">>
           /\ calls[r] = <<>>
           /\ responses[r][1].status = 500

---------------------------------------------------------------------------
(* C4 *)

\* C4: whenever the upstream call fails with a response of status S, the
\* request is answered with status S and error UpstreamError, the upstream
\* body under details, and the body's message (the fixed fallback when it has
\* none) as message; for every S and every body.
C4_UpstreamPassthrough ==
    \A r \in Reqs :
        Answered(r) /\ upstream[r].kind = "rejected" /\ upstream[r].hasResponse =>
            /\ pc[r] = "done"
            /\ Len(responses[r]) = 1
            /\ responses[r][1].status = upstream[r].status
            /\ responses[r][1].error = ERR_CWA_API
            /\ responses[r][1].hasDetails
            /\ responses[r][1].details = upstream[r].body
            /\ responses[r][1].message =
                   IF upstream[r].body.hasMessage /\ upstream[r].body.message # <<>>
                   THEN upstream[r].body.message
                   ELSE MSG_CANNOT_GET

---------------------------------------------------------------------------
(* C5 *)

\* C5: a fulfilled upstream call whose records.location is empty or absent is
\* answered 404 NoData with a message that contains the resolved location
\* name.
C5_NoData ==
    \A r \in Reqs :
        /\ Answered(r)
        /\ upstream[r].kind = "fulfilled"
        /\ upstream[r].data.hasRecords
        /\ (~upstream[r].data.hasLocation \/ upstream[r].data.location = <<>>)
        => /\ pc[r] = "done"
           /\ Len(responses[r]) = 1
           /\ responses[r][1].status = 404
           /\ responses[r][1].error = ERR_NO_DATA
           /\ Contains(responses[r][1].message, locationName[r].text)

---------------------------------------------------------------------------
(* C6 *)

\* a well-formed payload whose first location carries exactly the six elements
SixElements(data) ==
    /\ WellFormed(data)
    /\ Len(data.location[1].weatherElement) = 6
    /\ {data.location[1].weatherElement[k].elementName : k \in 1..6} = KnownTags

\* C6: for a well-formed payload with N time entries per element and the six
\* elements in any order, data.forecasts has exactly N slots; slot i carries
\* the start and end time of time[i] and each element's
\* time[i].parameter.parameterName in the field its tag selects (rain with a
\* "%" appended); every rain field ends in "%"; slots are in time-array order.
C6_Reshape ==
    \A r \in Reqs :
        Answered(r) /\ upstream[r].kind = "fulfilled" /\ SixElements(upstream[r].data) =>
            /\ pc[r] = "done"
            /\ Len(responses[r]) = 1
            /\ responses[r][1].success
            /\ LET els == upstream[r].data.location[1].weatherElement
                   f == responses[r][1].data.forecasts
               IN /\ Len(f) = Len(els[1].time)
                  /\ \A i \in 1..Len(f) :
                         /\ f[i].rain # <<>>
                         /\ f[i].rain[Len(f[i].rain)] = "%"
                         /\ \A k \in 1..6 :
                                /\ f[i].startTime = els[k].time[i].startTime
                                /\ f[i].endTime = els[k].time[i].endTime
                                /\ Field(f[i], els[k].elementName) =
                                       IF els[k].elementName = "PoP"
                                       THEN els[k].time[i].parameterName \o <<"%">>
                                       ELSE els[k].time[i].parameterName

\* six elements with WS first and PoP last, MaxTimes entries each, reshaped
C6_Witness ==
    \E r \in Reqs :
        /\ pc[r] = "done"
        /\ upstream[r].kind = "fulfilled"
        /\ SixElements(upstream[r].data)
        /\ upstream[r].data.location[1].weatherElement[1].elementName = "WS"
        /\ upstream[r].data.location[1].weatherElement[6].elementName = "PoP"
        /\ Len(upstream[r].data.location[1].weatherElement[1].time) = MaxTimes
        /\ Len(responses[r][1].data.forecasts) = MaxTimes

---------------------------------------------------------------------------
(* C7 *)

IsEnvelope(e) ==
    \/ e.success /\ e.status = 200
    \/ ~e.success /\ e.error # "" /\ e.message # <<>>

\* C7: whatever the upstream does, a request gets exactly one response, a
\* success or an error envelope; no failure escapes the handler's catch block
\* and no request is left unanswered.
C7_OneResponse ==
    /\ ~crashed
    /\ \A r \in Reqs :
           /\ pc[r] # "rejected"
           /\ Len(responses[r]) <= 1
           /\ pc[r] = "done" =>
                  Len(responses[r]) = 1 /\ IsEnvelope(responses[r][1])

---------------------------------------------------------------------------
(* C8 *)

\* C8: an upstream failure that carries no response is answered 500 with the
\* generic retry-later envelope and no details, and an upstream failure is
\* answered so only if it carries no response.
C8_NetworkError ==
    \A r \in Reqs :
        Answered(r) /\ upstream[r].kind = "rejected" =>
            IF upstream[r].hasResponse
            THEN \A i \in 1..Len(responses[r]) :
                     ~IsGenericServerError(responses[r][i])
            ELSE /\ pc[r] = "done"
                 /\ Len(responses[r]) = 1
                 /\ IsGenericServerError(responses[r][1])

\* a call that failed without a response, answered
C8_Witness ==
    \E r \in Reqs :
        /\ pc[r] = "done"
        /\ upstream[r] = RejectedNoResponse
        /\ Len(responses[r]) = 1
        /\ responses[r][1].status = 500

---------------------------------------------------------------------------
(* C9 *)

\* C9: in every interleaving of concurrent requests each request issues at
\* most one upstream call; once its call has settled or its response is sent
\* it issues no further call; the lookup table and the credential never
\* change.
C9_AtMostOneCall ==
    /\ [](\A r \in Reqs : Len(calls[r]) <= 1)
    /\ [][\A r \in Reqs :
              upstream[r].kind # "none" \/ responses[r] # <<>> \/ Answered(r)
                  => calls'[r] = calls[r]]_vars
    /\ [][/\ CITY_NAME_MAPPING' = CITY_NAME_MAPPING
          /\ CWA_API_KEY' = CWA_API_KEY]_vars

\* one request's call has failed and been answered while another still awaits
C9_Witness ==
    \E r1, r2 \in Reqs :
        /\ r1 # r2
        /\ pc[r1] = "done"
        /\ upstream[r1].kind = "rejected"
        /\ Len(calls[r1]) = 1
        /\ pc[r2] = "awaiting"
        /\ Len(calls[r2]) = 1

---------------------------------------------------------------------------
(* C10 *)

RECURSIVE SelectKnown(_)
SelectKnown(elements) ==
    IF elements = <<>> THEN <<>>
    ELSE IF elements[1].elementName \in KnownTags
    THEN <<elements[1]>> \o SelectKnown(Tail(elements))
    ELSE SelectKnown(Tail(elements))

\* the payload with the unknown-tag elements of its first location removed
RemoveUnknown(data) ==
    [data EXCEPT !.location[1].weatherElement = SelectKnown(@)]

HasElements(data) ==
    /\ data.hasRecords
    /\ data.hasLocation
    /\ data.location # <<>>
    /\ ~data.location[1].isNull
    /\ data.location[1].hasWeatherElement

\* what the handler does with a fulfilled call: [threw, response]
Produced(r) ==
    [threw |-> pc[r] = "rejected",
     response |-> IF responses[r] = <<>> THEN ServerErrorResponse ELSE responses[r][1]]

OmittedFieldsEmpty(r) ==
    responses[r] # <<>> /\ responses[r][1].success =>
        \A tag \in KnownTags :
            (\A k \in 1..Len(upstream[r].data.location[1].weatherElement) :
                 upstream[r].data.location[1].weatherElement[k].elementName # tag)
            => \A i \in 1..Len(responses[r][1].data.forecasts) :
                   Field(responses[r][1].data.forecasts[i], tag) = <<>>

\* C10 as stated: for every location payload the response is the one produced
\* for the payload with its unknown-tag elements removed, wherever they stand
\* and whatever the length of their time arrays; and the field of an omitted
\* known element is empty in every slot.
C10_Original ==
    \A r \in Reqs :
        Answered(r) /\ upstream[r].kind = "fulfilled" /\ HasElements(upstream[r].data) =>
            /\ Produced(r) = OnFulfilled(locationName[r].text, RemoveUnknown(upstream[r].data))
            /\ OmittedFieldsEmpty(r)

\* C10 amended: for every location payload whose elements' time arrays all
\* hold the same intervals and which has at least one known-tag element, the
\* response is the one produced for the payload with its unknown-tag elements
\* removed, wherever they stand; and the field of an omitted known element is
\* empty in every slot.
C10_Amended ==
    \A r \in Reqs :
        /\ Answered(r)
        /\ upstream[r].kind = "fulfilled"
        /\ WellFormed(upstream[r].data)
        /\ SelectKnown(upstream[r].data.location[1].weatherElement) # <<>>
        => /\ Produced(r) = OnFulfilled(locationName[r].text, RemoveUnknown(upstream[r].data))
           /\ responses[r][1].success
           /\ OmittedFieldsEmpty(r)

\* an unknown element first, then a known one, both with one time entry
C10_Witness ==
    \E r \in Reqs :
        /\ pc[r] = "done"
        /\ upstream[r].kind = "fulfilled"
        /\ WellFormed(upstream[r].data)
        /\ Len(upstream[r].data.location[1].weatherElement) >= 2
        /\ upstream[r].data.location[1].weatherElement[1].elementName = "UVI"
        /\ upstream[r].data.location[1].weatherElement[2].elementName = "PoP"
        /\ Len(responses[r][1].data.forecasts) = 1
        /\ responses[r][1].data.forecasts[1].rain = <<"PoP", "1", "%">>
        /\ responses[r][1].data.forecasts[1].weather = <<>>

=============================================================================
